---- MODULE Spec2Model ----
(***************************************************************************)
(* Harmony Search engine of harmony/_chamber.py: the harmony memory        *)
(* (_Harmonizer._Memory), the domain (_Harmonizer._Domain), the tolerance  *)
(* comparisons (_similar, _equal, __float_compare) and the engine calls    *)
(* set(), search() and multiple_search().                                  *)
(*                                                                         *)
(* Encoding.  Ranks and indices are 0-based as in the source; a sequence   *)
(* s holds rank k at s[k + 1].  An optional Python value is None (<<>>)    *)
(* or Some(v) (<<v>>).  Costs and vector components are integers, which    *)
(* float64 holds exactly in the ranges used here.  hmcr and par are kept   *)
(* in hundredths (0.9 is 90).                                              *)
(***************************************************************************)
EXTENDS Integers, Sequences, FiniteSets, Bags, TLC

VARIABLES
    hmcr,             \* self.hmcr
    par,              \* self.par
    n_iter,           \* self.n_iter
    obj_func,         \* self.__obj_func
    constraint_func,  \* self.__constraint_func
    seed,             \* self.__seed (optional)
    random,           \* self.__random: the seed the RandomState was built with
    maximize,         \* self.__maximize
    domain,           \* the engine's _Domain: a tuple of sorted value lists
    size,             \* _Memory.__size
    memory,           \* _Memory.__memory: the candidate vectors, by rank
    cost,             \* _Memory.__cost: the costs, by rank
    pc,               \* "idle", or "loop" inside search()
    multi,            \* the running search() was started by multiple_search()
    epoch,            \* search(): epoch
    min_costs,        \* search(): min_costs
    attempts,         \* loop bodies executed by the running / last search()
    nrejected,        \* of which ended in the reject branch (line 97)
    it,               \* what the last loop body did
    call,             \* the last call made on the engine, with its arguments
    ret               \* what that call returned

vars == <<hmcr, par, n_iter, obj_func, constraint_func, seed, random, maximize,
          domain, size, memory, cost, pc, multi, epoch, min_costs, attempts,
          nrejected, it, call, ret>>

engine == <<hmcr, par, n_iter, obj_func, constraint_func, seed, random, maximize,
            domain, size>>

(***************************************************************************)
(* Bounds of the model.                                                    *)
(***************************************************************************)
MaxAttempts == 3   \* loop bodies one search() may execute in the model
MaxCost == 2       \* calc_cost returns a cost in 0..MaxCost

(***************************************************************************)
(* Python values.                                                          *)
(***************************************************************************)
None == <<>>
Some(v) == <<v>>
IsNone(x) == x = None
Val(x) == x[1]

Abs(x) == IF x < 0 THEN -x ELSE x

Costs == 0..MaxCost

(***************************************************************************)
(* Tolerance comparisons (lines 277-293).  np.allclose(this, other, rtol)  *)
(* is  |this - other| <= atol + rtol * |other|  for every component, with  *)
(* numpy's default atol = 1e-8.  A tolerance rtol is num / 2^exp.  For     *)
(* integer operands below 2^24 the left side is an integer and atol is     *)
(* less than the gap between rtol * |other| and the next integer, so the   *)
(* test is  |this - other| <= floor(num * |other| / 2^exp).                *)
(***************************************************************************)
Eps32Exp == 23      \* np.finfo(np.float32).eps = 2^-23
Eps64Exp == 52      \* np.finfo(np.float64).eps = 2^-52
SimilarFactor == 1000

RECURSIVE ShiftRight(_, _)
ShiftRight(x, e) == IF e = 0 \/ x = 0 THEN x ELSE ShiftRight(x \div 2, e - 1)

\* floor(num * x / 2^exp) for exp >= 10, without forming num * x, which leaves
\* the 32-bit integers for x near 2^23: x is split at bit 10
ScaledDown(num, x, exp) ==
    ShiftRight(num * (x \div 1024) + (num * (x % 1024)) \div 1024, exp - 10)

\* np.allclose on one pair of numbers
allclose(this, other, num, exp) ==
    Abs(this - other) <= ScaledDown(num, Abs(other), exp)

\* __float_compare on two scalars
float_compare(this, other, num, exp) == allclose(this, other, num, exp)

\* __float_compare on two sequences: the lengths must agree, then every
\* component is compared
float_compare_seq(this, other, num, exp) ==
    /\ Len(this) = Len(other)
    /\ \A i \in 1..Len(this) : allclose(this[i], other[i], num, exp)

\* a _similar that takes the tightest tolerance instead of the loosest
_similar_tight(this, other) == float_compare_seq(this, other, 1, Eps64Exp)

\* _similar on sequences (candidate vectors), and on scalars
_similar(this, other) == float_compare_seq(this, other, SimilarFactor, Eps32Exp)

_similar_num(this, other) == float_compare(this, other, SimilarFactor, Eps32Exp)

\* _close on scalars, and on sequences
_close(this, other) == float_compare(this, other, 1, Eps32Exp)

_close_seq(this, other) == float_compare_seq(this, other, 1, Eps32Exp)

\* _equal on scalars (costs), and on sequences
_equal(this, other) == float_compare(this, other, 1, Eps64Exp)

_equal_seq(this, other) == float_compare_seq(this, other, 1, Eps64Exp)

(***************************************************************************)
(* _Domain (lines 248-274): every variable's value list is sorted.         *)
(***************************************************************************)
RECURSIVE SortedInsert(_, _)
SortedInsert(s, x) ==
    IF s = <<>> THEN <<x>>
    ELSE IF x < Head(s) THEN <<x>> \o s
    ELSE <<Head(s)>> \o SortedInsert(Tail(s), x)

RECURSIVE SortList(_)
SortList(s) == IF s = <<>> THEN <<>> ELSE SortedInsert(SortList(Tail(s)), Head(s))

\* _Domain.__init__: None gives the empty domain
Domain(d) == IF IsNone(d) THEN <<>> ELSE [i \in 1..Len(Val(d)) |-> SortList(Val(d)[i])]

n_var(d) == Len(d)

RECURSIVE VectorsFrom(_, _)
VectorsFrom(d, i) ==
    IF i > Len(d) THEN {<<>>}
    ELSE {<<x>> \o v : x \in {d[i][j] : j \in 1..Len(d[i])}, v \in VectorsFrom(d, i + 1)}

\* the candidate vectors over a domain: one admissible value per variable
Vectors(d) == VectorsFrom(d, 1)

(***************************************************************************)
(* _Memory (lines 206-246).                                                *)
(***************************************************************************)
\* _Memory.__init__: size zero vectors and size zero costs; no candidate
\* storage at all when size * n_var = 0
NewMemory(sz, nv) ==
    [memory |-> IF sz * nv > 0 THEN [r \in 1..sz |-> [j \in 1..nv |-> 0]] ELSE <<>>,
     cost   |-> [r \in 1..sz |-> 0]]

\* an insert that writes rank mem_idx without shifting the tail
ShiftInsertNoShift(a, mem_idx, x) ==
    [r \in 1..Len(a) |-> IF r - 1 = mem_idx THEN x ELSE a[r]]

\* a[mem_idx + 1:] = a[mem_idx:size - 1]; a[mem_idx] = x   (lines 216-220)
ShiftInsert(a, mem_idx, x) ==
    [r \in 1..Len(a) |->
        IF r - 1 < mem_idx THEN a[r]
        ELSE IF r - 1 = mem_idx THEN x
        ELSE a[r - 1]]

\* an insert that shifts the candidates and leaves the costs
insertMembersOnly(mem, cst, mem_idx, new_members, new_cost) ==
    [memory |-> ShiftInsert(mem, mem_idx, new_members),
     cost   |-> cst]

\* _Memory.insert
insert(mem, cst, mem_idx, new_members, new_cost) ==
    [memory |-> ShiftInsert(mem, mem_idx, new_members),
     cost   |-> ShiftInsert(cst, mem_idx, new_cost)]

\* a reversal that rotates the array by one rank instead
Rotated(a) == [r \in 1..Len(a) |-> a[(r % Len(a)) + 1]]

\* a[::-1]
Reversed(a) == [r \in 1..Len(a) |-> a[Len(a) + 1 - r]]

\* _Memory.reverse
reverse(mem, cst) == [memory |-> Reversed(mem), cost |-> Reversed(cst)]

\* cost.argsort(): the ranks in ascending cost order, equal costs in rank order
RECURSIVE ArgInsert(_, _, _)
ArgInsert(order, cst, r) ==
    IF order = <<>> THEN <<r>>
    ELSE IF cst[r] < cst[Head(order)] THEN <<r>> \o order
    ELSE <<Head(order)>> \o ArgInsert(Tail(order), cst, r)

RECURSIVE ArgSortUpTo(_, _)
ArgSortUpTo(cst, n) ==
    IF n = 0 THEN <<>> ELSE ArgInsert(ArgSortUpTo(cst, n - 1), cst, n)

argsort(cst) == ArgSortUpTo(cst, Len(cst))

\* _Memory.sort
sort(mem, cst, mx) ==
    LET sort_order == IF mx THEN Reversed(argsort(cst)) ELSE argsort(cst)
    IN  [memory |-> [r \in 1..Len(mem) |-> mem[sort_order[r]]],
         cost   |-> [r \in 1..Len(cst) |-> cst[sort_order[r]]]]


(***************************************************************************)
(* Construction.                                                           *)
(***************************************************************************)
DefaultHmcr == 90
DefaultPar == 20
DefaultNIter == 1000

\* the keyword arguments of a constructor or set() call, all None
NoArgs ==
    [hmcr |-> None, par |-> None, n_iter |-> None, seed |-> None, maximize |-> None,
     domain |-> None, mem_size |-> None, obj_func |-> None, constraint_func |-> None]

\* _Harmonizer.__init__ (lines 18-33): a keyword that is None takes its default
Construct(kw) ==
    [hmcr            |-> IF ~IsNone(kw.hmcr) THEN Val(kw.hmcr) ELSE DefaultHmcr,
     par             |-> IF ~IsNone(kw.par) THEN Val(kw.par) ELSE DefaultPar,
     n_iter          |-> IF ~IsNone(kw.n_iter) THEN Val(kw.n_iter) ELSE DefaultNIter,
     obj_func        |-> Val(kw.obj_func),
     constraint_func |-> Val(kw.constraint_func),
     seed            |-> kw.seed,
     random          |-> kw.seed,
     maximize        |-> IF ~IsNone(kw.maximize) THEN Val(kw.maximize) ELSE FALSE]

\* What a concrete engine's constructor adds: the _Domain of `domain` and a
\* _Memory of mem_size vectors over it.
Allocate(kw) ==
    LET d  == Domain(kw.domain)
        sz == IF IsNone(kw.mem_size) THEN 0 ELSE Val(kw.mem_size)
    IN  [domain |-> d, size |-> sz] @@ NewMemory(sz, n_var(d))

(***************************************************************************)
(* Inputs.                                                                 *)
(***************************************************************************)
Domain0 == << <<8389, 0, 8388>> >>            \* a raw one-variable domain
Domain1 == << <<1, 0>>, <<8388>> >>           \* a raw two-variable domain

NIterVals == {1, 2}
MemSizes == {3}

\* the keyword arguments an engine is constructed with
InitKwargs ==
    {[NoArgs EXCEPT !.n_iter = Some(n), !.maximize = mx, !.domain = d,
                    !.mem_size = Some(sz), !.obj_func = Some("f"),
                    !.constraint_func = Some("c")] :
        n \in NIterVals, mx \in {None, Some(TRUE)}, d \in {None, Some(Domain0)},
        sz \in MemSizes}

\* the initial population a collaborator fills in before it sorts the memory:
\* rank r holds the r-th vector of the domain's enumeration and any cost
RECURSIVE SetToSeq(_)
SetToSeq(S) ==
    IF S = {} THEN <<>>
    ELSE LET x == CHOOSE y \in S : TRUE IN <<x>> \o SetToSeq(S \ {x})

Populations(d, sz) ==
    LET vs == SetToSeq(Vectors(d))
    IN  {[memory |-> [r \in 1..sz |-> vs[((r - 1) % Len(vs)) + 1]], cost |-> c] :
            c \in [1..sz -> Costs]}

\* the values a set() call may supply for each argument
SetValues ==
    [hmcr |-> {50}, par |-> {30}, n_iter |-> {3}, seed |-> {7},
     maximize |-> {TRUE, FALSE}, domain |-> {Domain1}, mem_size |-> {2},
     obj_func |-> {"g"}, constraint_func |-> {"k"}]

Opt(S) == {None} \cup {Some(v) : v \in S}

Named == {"hmcr", "par", "n_iter", "seed", "maximize"}
Keyword == {"domain", "mem_size", "obj_func", "constraint_func"}

Supplied(req) == {k \in DOMAIN NoArgs : ~IsNone(req[k])}

\* the set() calls of the model: at most one of the named parameters and at
\* most one of the keyword arguments is supplied, the others are None
SetRequests ==
    {req \in
        {[hmcr |-> a, par |-> b, n_iter |-> c, seed |-> d, maximize |-> e,
          domain |-> f, mem_size |-> g, obj_func |-> h, constraint_func |-> i] :
            a \in Opt(SetValues.hmcr), b \in Opt(SetValues.par),
            c \in Opt(SetValues.n_iter), d \in Opt(SetValues.seed),
            e \in Opt(SetValues.maximize), f \in Opt(SetValues.domain),
            g \in Opt(SetValues.mem_size), h \in Opt(SetValues.obj_func),
            i \in Opt(SetValues.constraint_func)} :
        /\ Cardinality(Supplied(req) \cap Named) <= 1
        /\ Cardinality(Supplied(req) \cap Keyword) <= 1}

(***************************************************************************)
(* Bookkeeping of the calls, for stating the properties.                   *)
(***************************************************************************)
Call(op, req) == [op |-> op, args |-> req]

NoRet == [raised |-> FALSE, solutions |-> <<>>, min_costs |-> <<>>]

NoIter ==
    [outcome |-> "none", rank |-> -1, members |-> <<>>, cost |-> 0, violate |-> FALSE,
     broke |-> FALSE]

(***************************************************************************)
(* The engine after construction: built from its keyword arguments, the    *)
(* memory filled with an initial population and sorted in the engine's     *)
(* direction (_Memory.sort).  Without a domain the engine is inert.        *)
(***************************************************************************)
Init ==
    \E kw \in InitKwargs :
        LET e == Construct(kw)
            a == Allocate(kw)
        IN  /\ hmcr = e.hmcr
            /\ par = e.par
            /\ n_iter = e.n_iter
            /\ obj_func = e.obj_func
            /\ constraint_func = e.constraint_func
            /\ seed = e.seed
            /\ random = e.random
            /\ maximize = e.maximize
            /\ domain = a.domain
            /\ size = a.size
            /\ IF n_var(a.domain) = 0
               THEN memory = a.memory /\ cost = a.cost
               ELSE \E p \in Populations(a.domain, a.size) :
                        /\ memory = sort(p.memory, p.cost, e.maximize).memory
                        /\ cost = sort(p.memory, p.cost, e.maximize).cost
            /\ pc = "idle"
            /\ multi = FALSE
            /\ epoch = 0
            /\ min_costs = <<>>
            /\ attempts = 0
            /\ nrejected = 0
            /\ it = NoIter
            /\ call = Call("init", kw)
            /\ ret = NoRet

(***************************************************************************)
(* set (lines 35-76).                                                      *)
(***************************************************************************)
\* **kwargs of a set() call: hmcr, par, n_iter, seed and maximize are named
\* parameters of set, so Python never puts them into kwargs
Kwargs(req) ==
    [k \in Keyword |-> req[k]]

\* kwargs.get(key)
KwGet(kwargs, key) == IF key \in DOMAIN kwargs THEN kwargs[key] ELSE None

\* lines 38-51, once line 45 has not raised: the domain is the empty tuple
PreParams ==
    [hmcr |-> Some(hmcr), par |-> Some(par), n_iter |-> Some(n_iter),
     domain |-> Some(<<>>), mem_size |-> Some(size), obj_func |-> Some(obj_func),
     constraint_func |-> Some(constraint_func), seed |-> seed,
     maximize |-> Some(maximize)]

\* lines 52-67: every key of new_params is overwritten by the previous value
\* unless kwargs holds it
NewParams(req) ==
    [key \in DOMAIN PreParams |->
        IF IsNone(KwGet(Kwargs(req), key)) THEN PreParams[key] ELSE Kwargs(req)[key]]

\* line 69-70
Rebuilds(req) ==
    \/ ~IsNone(KwGet(Kwargs(req), "domain"))
    \/ ~IsNone(KwGet(Kwargs(req), "mem_size"))
    \/ ~IsNone(KwGet(Kwargs(req), "obj_func"))
    \/ ~IsNone(KwGet(Kwargs(req), "constraint_func"))

\* line 75
Flips(req) ==
    /\ ~IsNone(KwGet(Kwargs(req), "maximize"))
    /\ Val(KwGet(Kwargs(req), "maximize")) # maximize

\* line 45: self.domain[:] hands _Domain.__getitem__ a slice, which is not an
\* int, and indices[0] on a slice raises TypeError (lines 270-274)
SetRaises == n_var(domain) > 0

Set(req) ==
    /\ pc = "idle"
    /\ call' = Call("set", req)
    /\ attempts' = 0
    /\ nrejected' = 0
    /\ it' = NoIter
    /\ UNCHANGED <<pc, multi, epoch, min_costs>>
    /\ IF SetRaises
       THEN /\ ret' = [NoRet EXCEPT !.raised = TRUE]
            /\ UNCHANGED <<engine, memory, cost>>
       ELSE /\ ret' = NoRet
            /\ IF Rebuilds(req)
               THEN LET e == Construct(NewParams(req))
                        a == Allocate(NewParams(req))
                    IN  /\ hmcr' = e.hmcr
                        /\ par' = e.par
                        /\ n_iter' = e.n_iter
                        /\ obj_func' = e.obj_func
                        /\ constraint_func' = e.constraint_func
                        /\ seed' = e.seed
                        /\ random' = e.random
                        /\ maximize' = e.maximize
                        /\ domain' = a.domain
                        /\ size' = a.size
                        /\ memory' = a.memory
                        /\ cost' = a.cost
               ELSE IF Flips(req)
               THEN /\ memory' = reverse(memory, cost).memory
                    /\ cost' = reverse(memory, cost).cost
                    /\ UNCHANGED engine
               ELSE UNCHANGED <<engine, memory, cost>>


(***************************************************************************)
(* search (lines 78-116) and multiple_search (lines 119-145).  The hooks   *)
(* _select_members, _calc_cost and _violate_constraint are abstract: each  *)
(* loop body takes any candidate vector over the domain, any cost and any  *)
(* constraint verdict.                                                     *)
(***************************************************************************)
\* a reject test that looks at the cost only
RejectsCostOnly(violate, mx, new_cost, cst) ==
    \/ ~mx /\ new_cost > cst[Len(cst)]
    \/ mx /\ new_cost < cst[Len(cst)]

\* lines 92-94: the reject test
Rejects(violate, mx, new_cost, cst) ==
    \/ violate
    \/ ~mx /\ new_cost > cst[Len(cst)]
    \/ mx /\ new_cost < cst[Len(cst)]

\* a rank test that also takes a rank of the candidate's own cost
WorseOrEqual(mx, cst, i_mem, new_cost) ==
    \/ ~mx /\ cst[i_mem + 1] >= new_cost
    \/ mx /\ cst[i_mem + 1] <= new_cost

\* a rank test that takes the ranks better than the candidate
WorseFlipped(mx, cst, i_mem, new_cost) ==
    \/ ~mx /\ cst[i_mem + 1] < new_cost
    \/ mx /\ cst[i_mem + 1] > new_cost

\* lines 101-102: rank i_mem is strictly worse than the candidate
Worse(mx, cst, i_mem, new_cost) ==
    \/ ~mx /\ cst[i_mem + 1] > new_cost
    \/ mx /\ cst[i_mem + 1] < new_cost

\* a scan that keeps going to the last strictly worse rank
InsertRankLast(mx, cst, new_cost) ==
    IF \E i_mem \in 0..(Len(cst) - 1) : Worse(mx, cst, i_mem, new_cost)
    THEN CHOOSE i_mem \in 0..(Len(cst) - 1) :
            /\ Worse(mx, cst, i_mem, new_cost)
            /\ \A j \in (i_mem + 1)..(Len(cst) - 1) : ~Worse(mx, cst, j, new_cost)
    ELSE -1

\* lines 100-104: the rank the scan inserts at, -1 when it finds none
InsertRank(mx, cst, new_cost) ==
    IF \E i_mem \in 0..(Len(cst) - 1) : Worse(mx, cst, i_mem, new_cost)
    THEN CHOOSE i_mem \in 0..(Len(cst) - 1) :
            /\ Worse(mx, cst, i_mem, new_cost)
            /\ \A j \in 0..(i_mem - 1) : ~Worse(mx, cst, j, new_cost)
    ELSE -1

\* lines 99-104: the memory after the scan
Inserted(mem, cst, mx, new_members, new_cost) ==
    LET i_mem == InsertRank(mx, cst, new_cost)
    IN  IF i_mem >= 0 THEN insert(mem, cst, i_mem, new_members, new_cost)
        ELSE [memory |-> mem, cost |-> cst]

\* a reject branch that forgets the trace
RejectTraceSkipped(trace, cst) == trace

\* line 96: the reject branch records the current best cost
RejectTrace(trace, cst) == Append(trace, cst[1])

\* a convergence test on the two best ranks
ConvergedAdjacent(cst) == _equal(cst[1], cst[2])

\* line 106: the convergence test
Converged(cst) == _equal(cst[1], cst[Len(cst)])

\* lines 130-132: the ranks multiple_search scans, 1 up to the first rank
\* whose cost is not _equal to the best cost
RECURSIVE TiedRun(_, _)
TiedRun(cst, i_mem) ==
    IF i_mem > Len(cst) - 1 \/ ~_equal(cst[i_mem + 1], cst[1]) THEN <<>>
    ELSE <<i_mem>> \o TiedRun(cst, i_mem + 1)

\* a collection that takes every scanned vector
RECURSIVE CollectAll(_, _, _)
CollectAll(mem, ranks, solutions) ==
    IF ranks = <<>> THEN solutions
    ELSE CollectAll(mem, Tail(ranks), Append(solutions, mem[Head(ranks) + 1]))

\* lines 134-143: a scanned vector joins the solutions unless it is _similar
\* to one already there
RECURSIVE Collect(_, _, _)
Collect(mem, ranks, solutions) ==
    IF ranks = <<>> THEN solutions
    ELSE LET var_set == mem[Head(ranks) + 1]
             is_solution == \A i_sol \in 1..Len(solutions) :
                                ~_similar(var_set, solutions[i_sol])
         IN  Collect(mem, Tail(ranks),
                     IF is_solution THEN Append(solutions, var_set) ELSE solutions)

\* lines 128-145
Solutions(mem, cst) == Collect(mem, TiedRun(cst, 1), <<mem[1]>>)

\* search() or multiple_search() is entered: line 84, 87
SearchStart(m) ==
    /\ pc = "idle"
    /\ n_var(domain) > 0
    /\ size > 0
    /\ pc' = "loop"
    /\ multi' = m
    /\ epoch' = 0
    /\ min_costs' = <<cost[1]>>
    /\ attempts' = 0
    /\ nrejected' = 0
    /\ it' = NoIter
    /\ call' = Call(IF m THEN "multiple_search" ELSE "search", NoArgs)
    /\ ret' = NoRet
    /\ UNCHANGED <<engine, memory, cost>>

\* one loop body, lines 88-111, for the candidate, cost and constraint verdict
\* the hooks return
SearchBody(new_members, new_cost, violate) ==
    /\ pc = "loop"
    /\ epoch < n_iter
    /\ attempts < MaxAttempts
    /\ attempts' = attempts + 1
    /\ IF Rejects(violate, maximize, new_cost, cost)
       THEN /\ min_costs' = RejectTrace(min_costs, cost)
            /\ nrejected' = nrejected + 1
            /\ it' = [outcome |-> "rejected", rank |-> -1, members |-> new_members,
                      cost |-> new_cost, violate |-> violate, broke |-> FALSE]
            /\ UNCHANGED <<memory, cost, epoch, pc>>
       ELSE LET m2 == Inserted(memory, cost, maximize, new_members, new_cost)
                k  == InsertRank(maximize, cost, new_cost)
            IN  /\ memory' = m2.memory
                /\ cost' = m2.cost
                /\ nrejected' = nrejected
                /\ it' = [outcome |-> IF k >= 0 THEN "inserted" ELSE "kept",
                          rank |-> k, members |-> new_members, cost |-> new_cost,
                          violate |-> violate, broke |-> Converged(m2.cost)]
                /\ IF Converged(m2.cost)
                   THEN /\ pc' = "break"
                        /\ UNCHANGED <<epoch, min_costs>>
                   ELSE /\ pc' = "loop"
                        /\ epoch' = epoch + 1
                        /\ min_costs' = Append(min_costs, m2.cost[1])
    /\ UNCHANGED <<engine, multi, call, ret>>

\* one loop body with whatever the hooks return
SearchIter ==
    \E new_members \in Vectors(domain), new_cost \in Costs, violate \in BOOLEAN :
        SearchBody(new_members, new_cost, violate)

\* the loop is left (line 88 or 107) and the call returns: lines 115-116, and
\* lines 127-145 for multiple_search
SearchReturn ==
    /\ \/ pc = "loop" /\ epoch >= n_iter
       \/ pc = "break"
    /\ pc' = "idle"
    /\ ret' = [raised |-> FALSE,
               solutions |-> IF multi THEN Solutions(memory, cost) ELSE <<memory[1]>>,
               min_costs |-> min_costs]
    /\ min_costs' = <<>>
    /\ epoch' = 0
    /\ UNCHANGED <<engine, memory, cost, multi, attempts, nrejected, it, call>>

Next ==
    \/ \E req \in SetRequests : Set(req)
    \/ \E m \in BOOLEAN : SearchStart(m)
    \/ SearchIter
    \/ SearchReturn

Spec == Init /\ [][Next]_vars


(***************************************************************************)
(* Direct use of the engine's objects between the calls: the memory        *)
(* (engine.memory.insert / sort / reverse, lines 215-229, and              *)
(* engine.memory[k] = v, lines 245-246) and the seed (engine.seed = s,     *)
(* lines 194-197).                                                         *)
(***************************************************************************)
MemoryCall(op, k, v, c) ==
    /\ pc = "idle"
    /\ n_var(domain) > 0
    /\ size > 0
    /\ call' = Call(op, NoArgs)
    /\ it' = [outcome |-> op, rank |-> k, members |-> v, cost |-> c, violate |-> FALSE,
              broke |-> FALSE]
    /\ ret' = NoRet
    /\ attempts' = 0
    /\ nrejected' = 0
    /\ UNCHANGED <<engine, pc, multi, epoch, min_costs>>

MemInsert(mem_idx, new_members, new_cost) ==
    /\ MemoryCall("insert", mem_idx, new_members, new_cost)
    /\ memory' = insert(memory, cost, mem_idx, new_members, new_cost).memory
    /\ cost' = insert(memory, cost, mem_idx, new_members, new_cost).cost

MemSort(mx) ==
    /\ MemoryCall(IF mx THEN "sort_max" ELSE "sort_min", -1, <<>>, 0)
    /\ memory' = sort(memory, cost, mx).memory
    /\ cost' = sort(memory, cost, mx).cost

MemReverse ==
    /\ MemoryCall("reverse", -1, <<>>, 0)
    /\ memory' = reverse(memory, cost).memory
    /\ cost' = reverse(memory, cost).cost

\* engine.seed = s, the seed setter (lines 194-197): the seed is stored and the
\* random source is reseeded with it; s may be None
SeedSet(s) ==
    /\ pc = "idle"
    /\ seed' = s
    /\ random' = s
    /\ call' = Call("seed", [NoArgs EXCEPT !.seed = s])
    /\ ret' = NoRet
    /\ attempts' = 0
    /\ nrejected' = 0
    /\ it' = NoIter
    /\ UNCHANGED <<hmcr, par, n_iter, obj_func, constraint_func, maximize, domain,
                   size, memory, cost, pc, multi, epoch, min_costs>>

\* engine.memory[mem_idx] = new_members, _Memory.__setitem__ (lines 245-246):
\* the vector of one rank is overwritten, the costs are left
MemSetItem(mem_idx, new_members) ==
    /\ MemoryCall("setitem", mem_idx, new_members, 0)
    /\ memory' = [memory EXCEPT ![mem_idx + 1] = new_members]
    /\ cost' = cost

NextMemory ==
    \/ \E mem_idx \in 0..(size - 1), new_members \in Vectors(domain), new_cost \in Costs :
            MemInsert(mem_idx, new_members, new_cost)
    \/ \E mx \in BOOLEAN : MemSort(mx)
    \/ MemReverse
    \/ \E mem_idx \in 0..(size - 1), new_members \in Vectors(domain) :
            MemSetItem(mem_idx, new_members)
    \/ \E s \in Opt(SetValues.seed) : SeedSet(s)

SpecMemory == Init /\ [][NextMemory]_vars

(***************************************************************************)
(* Properties.                                                             *)
(***************************************************************************)
\* cst is rank-ordered in direction mx
RankOrdered(mx, cst) ==
    \A i \in 1..(Len(cst) - 1) :
        IF mx THEN cst[i] >= cst[i + 1] ELSE cst[i] <= cst[i + 1]

SearchOps == {"search", "multiple_search"}

\* the step is a set() call
SetStep == pc = "idle" /\ pc' = "idle" /\ call'.op = "set"

\* the last call was search() or multiple_search() and it has returned
Returned == pc = "idle" /\ call.op \in SearchOps

\* C1: the memory is rank-ordered by cost in the engine's direction in every
\* reachable state, so after every loop body of search(): adjacent ranks
\* satisfy cost[i] <= cost[i+1] when minimizing, >= when maximizing.
C1_RankInvariant == RankOrdered(maximize, cost)

\* a loop body has inserted in the middle of a memory of distinct costs
C1_Witness ==
    /\ pc = "loop"
    /\ it.outcome = "inserted"
    /\ it.rank = 1
    /\ size = 3
    /\ cost[1] # cost[2]
    /\ cost[2] # cost[3]

\* C2: search() ends after at most n_iter loop bodies, rejected ones included.
C2_AtMostNIterAttempts == attempts <= n_iter

\* C3: when every candidate of a search() is rejected, the search executes
\* exactly n_iter loop bodies: it never executes more, and what it returns is
\* a trace of n_iter + 1 entries, all the initial best cost.
C3_AllRejectedExhausts ==
    (call.op \in SearchOps /\ nrejected = attempts) =>
        /\ attempts <= n_iter
        /\ pc = "idle" =>
            /\ Len(ret.min_costs) = n_iter + 1
            /\ \A i \in 1..Len(ret.min_costs) : ret.min_costs[i] = cost[1]

\* C4 as claimed: the returned trace has 1 + (loop bodies executed) entries.
C4_TraceLengthClaimed ==
    Returned => Len(ret.min_costs) = 1 + attempts

\* C4 amended: the trace holds the initial best cost and one entry per loop
\* body, except the loop body that ends the search by the convergence break,
\* which adds none: inside the loop and at return.
C4_TraceLength ==
    /\ pc \in {"loop", "break"} =>
            Len(min_costs) = 1 + attempts - (IF pc = "break" THEN 1 ELSE 0)
    /\ Returned =>
            Len(ret.min_costs) = 1 + attempts - (IF it.broke THEN 1 ELSE 0)

\* a search has returned by the convergence break after a rejected attempt
C4_Witness ==
    /\ Returned
    /\ it.broke
    /\ nrejected >= 1
    /\ attempts >= 2

\* the request supplies maximize, the negation of the current direction, and
\* nothing else
FlipOnly(req) ==
    /\ Supplied(req) = {"maximize"}
    /\ Val(req.maximize) = ~maximize

\* C5: set() with only maximize, negated, reverses the candidate order and
\* the cost order.
C5_FlipReverses ==
    [][(SetStep /\ FlipOnly(call'.args)) =>
            /\ memory' = Reversed(memory)
            /\ cost' = Reversed(cost)]_vars

\* C6: after a set() that requests a direction, the engine's maximize flag is
\* that direction and the memory is rank-ordered in it.
C6_DirectionFollowsSet ==
    (call.op = "set" /\ ~IsNone(call.args.maximize)) =>
        /\ maximize = Val(call.args.maximize)
        /\ RankOrdered(maximize, cost)

\* the engine's configuration, keyed like the arguments of set()
Fields ==
    [hmcr |-> Some(hmcr), par |-> Some(par), n_iter |-> Some(n_iter),
     seed |-> seed, maximize |-> Some(maximize), domain |-> Some(domain),
     mem_size |-> Some(size), obj_func |-> Some(obj_func),
     constraint_func |-> Some(constraint_func)]

\* what a supplied argument makes of its field: a domain is stored sorted
Stored(k, arg) == IF k = "domain" THEN Some(Domain(arg)) ELSE arg

\* C7: set() that supplies exactly one of hmcr, par, n_iter, seed, with a new
\* value, gives the field that value, reseeds the random source on a new
\* seed, and leaves the memory as it was.
C7_SingleFieldApplied ==
    [][\A k \in {"hmcr", "par", "n_iter", "seed"} :
        (SetStep /\ Supplied(call'.args) = {k} /\ call'.args[k] # Fields[k]) =>
            /\ Fields'[k] = call'.args[k]
            /\ (k = "seed" => random' = call'.args[k])
            /\ memory' = memory
            /\ cost' = cost]_vars

\* C8: set() that supplies domain, mem_size, objective or constraint rebuilds
\* the engine: every supplied field takes its new value, every other field
\* keeps its value.
C8_RebuildMerges ==
    [][(SetStep /\ Supplied(call'.args) \cap Keyword # {}) =>
        \A k \in DOMAIN NoArgs :
            Fields'[k] = IF k \in Supplied(call'.args)
                         THEN Stored(k, call'.args[k]) ELSE Fields[k]]_vars

\* C9: multiple_search() returns no two distinct solutions that are _similar.
C9_NoSimilarPair ==
    (pc = "idle" /\ call.op = "multiple_search") =>
        \A i, j \in 1..Len(ret.solutions) :
            i # j => ~_similar(ret.solutions[i], ret.solutions[j])

\* the entries <<vector, cost>> of a memory, and how often e is among them
Copies(mem, cst, e) == Cardinality({r \in 1..Len(mem) : <<mem[r], cst[r]>> = e})

\* the step has dropped the worst entry and taken the new one: every entry is
\* in the memory as often as before, one time less for the previous worst
\* entry, one time more for the inserted one
DroppedWorst ==
    LET worst == <<memory[size], cost[size]>>
        new   == <<it'.members, it'.cost>>
        all   == {<<memory[r], cost[r]>> : r \in 1..size}
                    \cup {<<memory'[r], cost'[r]>> : r \in 1..size} \cup {new}
    IN  \A e \in all :
            Copies(memory', cost', e) =
                Copies(memory, cost, e) - (IF e = worst THEN 1 ELSE 0)
                                        + (IF e = new THEN 1 ELSE 0)

\* the step is a call of Memory.insert
InsertStep == pc = "idle" /\ call'.op = "insert"

\* C10 as claimed: insert(k, v, c) keeps size entries, and drops the previous
\* worst entry exactly when k < size - 1.
C10_DropsWorstBelowTailOnly ==
    [][InsertStep =>
        /\ Len(memory') = size /\ Len(cost') = size
        /\ DroppedWorst <=> it'.rank < size - 1]_vars

\* C10 amended: insert(k, v, c) keeps size entries, and the previous worst
\* entry leaves the memory for every rank k: shifted off the tail when
\* k < size - 1, overwritten by the new entry when k = size - 1.
C10_InsertKeepsSizeDropsWorst ==
    [][InsertStep =>
        /\ Len(memory') = size /\ Len(cost') = size
        /\ DroppedWorst
        /\ memory'[it'.rank + 1] = it'.members
        /\ cost'[it'.rank + 1] = it'.cost]_vars

\* insert has been called at the tail rank, and below it, with an entry that
\* was not in the memory
C10_Witness ==
    /\ call.op = "insert"
    /\ it.rank = size - 1
    /\ size = 3
    /\ memory[1] # memory[size]
    /\ cost[1] # cost[size]


(***************************************************************************)
(* The tolerance comparisons applied to operands of their own: two         *)
(* sequences, held in memory, and two scalars, held in cost.               *)
(***************************************************************************)
CmpValues == {0, 8388, 8389, 8388608, 8388609}

CmpSeqs == {<<x>> : x \in CmpValues} \cup {<<x, y>> : x \in CmpValues, y \in {0, 8388609}}

NoVerdicts ==
    [seq |-> [equal |-> FALSE, close |-> FALSE, similar |-> FALSE],
     num |-> [equal |-> FALSE, close |-> FALSE, similar |-> FALSE]]

InitCompare ==
    LET e == Construct([NoArgs EXCEPT !.obj_func = Some("f"), !.constraint_func = Some("c")])
    IN  /\ hmcr = e.hmcr
        /\ par = e.par
        /\ n_iter = e.n_iter
        /\ obj_func = e.obj_func
        /\ constraint_func = e.constraint_func
        /\ seed = e.seed
        /\ random = e.random
        /\ maximize = e.maximize
        /\ domain = <<>>
        /\ size = 0
        /\ \E this \in CmpSeqs, other \in CmpSeqs : memory = <<this, other>>
        /\ \E this \in CmpValues, other \in CmpValues : cost = <<this, other>>
        /\ pc = "idle"
        /\ multi = FALSE
        /\ epoch = 0
        /\ min_costs = <<>>
        /\ attempts = 0
        /\ nrejected = 0
        /\ it = NoIter
        /\ call = Call("init", NoArgs)
        /\ ret = NoVerdicts

\* _equal, _close and _similar are applied to the two sequences and to the
\* two scalars
Compare ==
    /\ call.op = "init"
    /\ call' = Call("compare", NoArgs)
    /\ ret' = [seq |-> [equal   |-> _equal_seq(memory[1], memory[2]),
                        close   |-> _close_seq(memory[1], memory[2]),
                        similar |-> _similar(memory[1], memory[2])],
               num |-> [equal   |-> _equal(cost[1], cost[2]),
                        close   |-> _close(cost[1], cost[2]),
                        similar |-> _similar_num(cost[1], cost[2])]]
    /\ UNCHANGED <<engine, memory, cost, pc, multi, epoch, min_costs, attempts,
                   nrejected, it>>

SpecCompare == InitCompare /\ [][Compare]_vars

\* the step is a call of Memory.reverse
ReverseStep == pc = "idle" /\ call'.op = "reverse"

\* C11: Memory.reverse() applied twice restores the candidates and the costs:
\* reversing the memory a reverse() call has left gives back the memory the
\* call started from, also after insert() calls.
C11_ReverseInvolution ==
    [][ReverseStep =>
        /\ reverse(memory', cost').memory = memory
        /\ reverse(memory', cost').cost = cost]_vars

\* reverse() has been called on a memory insert() had left out of rank order,
\* with different entries at its two ends and a best rank that differs from
\* the middle one
C11_Witness ==
    /\ call.op = "reverse"
    /\ size = 3
    /\ memory[1] # memory[3]
    /\ memory[1] # memory[2]
    /\ cost[1] < cost[2]
    /\ cost[3] < cost[2]

\* C12: equal implies close and close implies similar, on sequences and on
\* scalars.
C12_ToleranceOrdering ==
    call.op = "compare" =>
        /\ ret.seq.equal => ret.seq.close
        /\ ret.seq.close => ret.seq.similar
        /\ ret.num.equal => ret.num.close
        /\ ret.num.close => ret.num.similar

\* the converses fail: two sequences are similar and not close, two scalars
\* are close and not equal
C12_Witness ==
    /\ call.op = "compare"
    /\ ret.seq.similar /\ ~ret.seq.close
    /\ ret.num.close /\ ~ret.num.equal

\* C17: insert(k, v, c) is the shift-insert: the ranks below k are unchanged,
\* rank k holds (v, c), and every entry of the ranks k..size-2 has moved one
\* rank toward the tail, in the candidates and in the costs alike.
C17_ShiftInsert ==
    [][InsertStep =>
        LET k == it'.rank
        IN  /\ \A j \in 0..(k - 1) :
                    memory'[j + 1] = memory[j + 1] /\ cost'[j + 1] = cost[j + 1]
            /\ memory'[k + 1] = it'.members
            /\ cost'[k + 1] = it'.cost
            /\ \A j \in k..(size - 2) :
                    memory'[j + 2] = memory[j + 1] /\ cost'[j + 2] = cost[j + 1]
            /\ DOMAIN memory' = 1..size
            /\ DOMAIN cost' = 1..size]_vars

\* insert has been called at rank 0 and has shifted two different entries
C17_Witness ==
    /\ call.op = "insert"
    /\ it.rank = 0
    /\ size = 3
    /\ memory[2] # memory[3]
    /\ cost[2] # cost[3]
    /\ <<memory[1], cost[1]>> # <<memory[2], cost[2]>>


\* cost a is strictly worse than cost b in the engine's direction
StrictlyWorse(a, b) == IF maximize THEN a < b ELSE a > b

\* the step is one loop body of search()
IterStep == pc = "loop" /\ attempts' = attempts + 1

\* the candidate of the loop body violates the constraint or costs strictly
\* more than the worst rank
RejectedCase == it'.violate \/ StrictlyWorse(it'.cost, cost[size])

\* the ranks (from 0) whose cost is strictly worse than the candidate's
WorseRanks == {k \in 0..(size - 1) : StrictlyWorse(cost[k + 1], it'.cost)}

\* the first of them
FirstWorseRank == CHOOSE k \in WorseRanks : \A j \in WorseRanks : k <= j

\* C13: a loop body whose candidate is rejected (it violates the constraint,
\* or its cost is strictly worse than the worst rank's) leaves the candidates
\* and the costs of the memory unchanged, so search() stores no violating
\* candidate.
C13_RejectedLeavesMemory ==
    [][IterStep /\ RejectedCase => memory' = memory /\ cost' = cost]_vars

\* a violating candidate that costs strictly less than the best rank has been
\* rejected
C13_Witness ==
    /\ pc = "loop"
    /\ it.outcome = "rejected"
    /\ it.violate
    /\ StrictlyWorse(cost[1], it.cost)
    /\ \A r \in 1..size : memory[r] # it.members

\* C14 as claimed: every accepted candidate is inserted at the first rank
\* whose cost is strictly worse than its cost, and is there after the loop
\* body.
C14_AcceptedInserted ==
    [][IterStep /\ ~RejectedCase =>
        /\ WorseRanks # {}
        /\ memory'[FirstWorseRank + 1] = it'.members
        /\ cost'[FirstWorseRank + 1] = it'.cost]_vars

\* C14 amended: an accepted candidate is inserted at the first rank whose cost
\* is strictly worse than its cost and is there after the loop body; when no
\* rank is strictly worse (the candidate ties the worst rank) the loop body
\* stores nothing and the memory is unchanged.
C14_InsertedAtFirstWorse ==
    [][IterStep /\ ~RejectedCase =>
        IF WorseRanks # {}
        THEN /\ memory'[FirstWorseRank + 1] = it'.members
             /\ cost'[FirstWorseRank + 1] = it'.cost
        ELSE memory' = memory /\ cost' = cost]_vars

\* an accepted candidate has been inserted below the best rank, ahead of a
\* rank of another cost
C14_Witness ==
    /\ pc = "loop"
    /\ it.outcome = "inserted"
    /\ it.rank = 1
    /\ memory[2] = it.members
    /\ cost[2] = it.cost
    /\ cost[3] # cost[2]
    /\ memory[3] # memory[2]

\* C15: when a loop body inserts, every incumbent whose cost is equal to or
\* better than the candidate's keeps its rank; an incumbent whose cost is
\* strictly worse moves one rank toward the tail, or is dropped from the
\* last rank.
C15_IncumbentsKeepRank ==
    [][IterStep /\ it'.outcome = "inserted" =>
        \A r \in 1..size :
            IF StrictlyWorse(cost[r], it'.cost)
            THEN r < size => memory'[r + 1] = memory[r] /\ cost'[r + 1] = cost[r]
            ELSE memory'[r] = memory[r] /\ cost'[r] = cost[r]]_vars

\* a candidate has been inserted behind an incumbent of its own cost and
\* another vector
C15_Witness ==
    /\ pc = "loop"
    /\ it.outcome = "inserted"
    /\ it.rank = 1
    /\ cost[1] = it.cost
    /\ memory[1] # it.members
    /\ cost[3] # cost[2]


\* C16 as claimed: a loop body ends the search early exactly when it has
\* inserted and the best and the worst cost are equal after it.
C16_BreakOnlyAfterInsertion ==
    [][IterStep =>
        (pc' = "break" <=> (it'.outcome = "inserted" /\ cost'[1] = cost'[size]))]_vars

\* C16 amended: a loop body ends the search early exactly when its candidate
\* is accepted and the best and the worst cost are equal after it, whether or
\* not it has inserted; the memory then left has cost[0] = cost[size-1], the
\* budget was not used up, and no further loop body runs.
C16_BreakIffConverged ==
    [][/\ IterStep =>
            /\ pc' = "break" <=> (~RejectedCase /\ cost'[1] = cost'[size])
            /\ pc' = "break" => epoch' < n_iter
       /\ pc = "break" =>
            /\ cost[1] = cost[size]
            /\ attempts' = attempts
            /\ memory' = memory
            /\ cost' = cost
            /\ pc' = "idle"]_vars

\* a search has returned early after an insertion at the last rank made the
\* best and the worst cost equal
C16_Witness ==
    /\ Returned
    /\ it.broke
    /\ it.outcome = "inserted"
    /\ it.rank = size - 1
    /\ attempts >= 2
    /\ Len(ret.min_costs) <= n_iter
    /\ cost[1] = cost[size]

\* the step is the return of multiple_search()
MultiReturn == pc # "idle" /\ pc' = "idle" /\ multi

\* the ranks (from 1) of the leading run whose costs are equal to the best cost
LeadingRun == {r \in 1..size : \A j \in 1..r : _equal(cost[j], cost[1])}

\* C19: multiple_search() returns the greedy de-duplication of the leading
\* run of best-tied ranks: the first solution is the rank-0 candidate, the
\* solutions are entries of the run in rank order, no solution is similar to
\* one returned before it, every rank of the run is returned or similar to a
\* solution returned before it, and the trace is the one of the search.
C19_GreedyDedup ==
    [][MultiReturn =>
        LET sols == ret'.solutions
        IN  /\ Len(sols) >= 1
            /\ sols[1] = memory[1]
            /\ \E at \in [1..Len(sols) -> LeadingRun] :
                    /\ at[1] = 1
                    /\ \A i \in 1..Len(sols) : sols[i] = memory[at[i]]
                    /\ \A i \in 1..Len(sols), j \in 1..Len(sols) :
                            i < j => at[i] < at[j]
                    /\ \A r \in LeadingRun :
                            \/ \E i \in 1..Len(sols) : at[i] = r
                            \/ \E i \in 1..Len(sols) :
                                    at[i] < r /\ _similar(memory[r], sols[i])
            /\ \A i \in 1..Len(sols), j \in 1..Len(sols) :
                    i < j => ~_similar(sols[j], sols[i])
            /\ ret'.min_costs = min_costs]_vars

\* multiple_search() has returned two of three best-tied ranks: it has left
\* out one that is similar to a solution, and the other solution is similar
\* to none
C19_Witness ==
    /\ Returned
    /\ call.op = "multiple_search"
    /\ size = 3
    /\ cost[3] = cost[1]
    /\ Len(ret.solutions) = 2
    /\ ret.solutions[1] # ret.solutions[2]

\* trace t never worsens in the engine's direction
NeverWorsens(t) == \A i \in 1..(Len(t) - 1) : ~StrictlyWorse(t[i + 1], t[i])

\* C20: within one search() the best-cost trace never worsens, and the best
\* cost of the memory (the cost of the solution returned) is never worse
\* than the best cost the search started with.
C20_TraceNeverWorsens ==
    /\ pc \in {"loop", "break"} =>
            /\ NeverWorsens(min_costs)
            /\ ~StrictlyWorse(cost[1], min_costs[1])
    /\ Returned =>
            /\ NeverWorsens(ret.min_costs)
            /\ ~StrictlyWorse(cost[1], ret.min_costs[1])

\* a search has returned a trace that improved twice
C20_Witness ==
    /\ Returned
    /\ Len(ret.min_costs) >= 3
    /\ StrictlyWorse(ret.min_costs[1], ret.min_costs[2])
    /\ StrictlyWorse(ret.min_costs[2], ret.min_costs[3])
    /\ cost[1] = ret.min_costs[3]


(***************************************************************************)
(* The engine with an objective: _calc_cost returns obj_func(new_members), *)
(* the initial population is costed by obj_func, and the memory is also    *)
(* used directly (insert of a vector with its objective value, sort,       *)
(* reverse) between the searches.                                          *)
(***************************************************************************)
\* the objective functions: any cost for every vector of the domain
Objectives == [Vectors(Domain(Some(Domain0))) -> Costs]

ObjKwargs ==
    {[NoArgs EXCEPT !.n_iter = Some(2), !.maximize = mx, !.domain = Some(Domain0),
                    !.mem_size = Some(sz), !.obj_func = Some(f),
                    !.constraint_func = Some("c")] :
        mx \in {None, Some(TRUE)}, sz \in MemSizes, f \in Objectives}

InitObjective ==
    \E kw \in ObjKwargs :
        LET e == Construct(kw)
            a == Allocate(kw)
        IN  /\ hmcr = e.hmcr
            /\ par = e.par
            /\ n_iter = e.n_iter
            /\ obj_func = e.obj_func
            /\ constraint_func = e.constraint_func
            /\ seed = e.seed
            /\ random = e.random
            /\ maximize = e.maximize
            /\ domain = a.domain
            /\ size = a.size
            /\ \E m \in [1..a.size -> Vectors(a.domain)] :
                    LET c == [r \in 1..a.size |-> e.obj_func[m[r]]]
                    IN  /\ memory = sort(m, c, e.maximize).memory
                        /\ cost = sort(m, c, e.maximize).cost
            /\ pc = "idle"
            /\ multi = FALSE
            /\ epoch = 0
            /\ min_costs = <<>>
            /\ attempts = 0
            /\ nrejected = 0
            /\ it = NoIter
            /\ call = Call("init", kw)
            /\ ret = NoRet

\* one loop body whose cost is the objective value of the candidate
ObjSearchIter ==
    \E new_members \in Vectors(domain), violate \in BOOLEAN :
        SearchBody(new_members, obj_func[new_members], violate)

\* a direct insert of a vector with its objective value
ObjInsert ==
    \E mem_idx \in 0..(size - 1), new_members \in Vectors(domain) :
        MemInsert(mem_idx, new_members, obj_func[new_members])

NextObjective ==
    \/ SearchStart(FALSE)
    \/ ObjSearchIter
    \/ SearchReturn
    \/ ObjInsert
    \/ \E mx \in BOOLEAN : MemSort(mx)
    \/ MemReverse

SpecObjective == InitObjective /\ [][NextObjective]_vars

\* C18: cost[i] is the objective value of the candidate vector at rank i, for
\* every rank, after any sequence of search() loop bodies and insert, sort and
\* reverse calls on a memory that started so.
C18_CostIsObjective ==
    \A r \in 1..size : cost[r] = obj_func[memory[r]]

\* a search has inserted into a memory that direct calls had left out of
\* rank order, and the memory holds vectors of different objective values
C18_Witness ==
    /\ Returned
    /\ it.outcome = "inserted"
    /\ ~RankOrdered(maximize, cost)
    /\ memory[it.rank + 1] = it.members
    /\ cost[1] # cost[2]


====
